---- MODULE Spec2Model ----
(***************************************************************************)
(* The particle banks of src/src/bank.cpp: the source bank, the shared     *)
(* fission bank with its length and capacity, and the per-particle progeny *)
(* counters, together with the operations of that file                     *)
(* (free_memory_bank, init_fission_bank, sort_fission_bank,                *)
(* openmc_source_bank, openmc_fission_bank).  The transport workers that   *)
(* append to the fission bank and the driver that builds the next source   *)
(* bank live outside bank.cpp; they are modelled from spec.md (sections    *)
(* 4.1, 4.2 and 5) and are marked as such where they are defined.          *)
(***************************************************************************)
EXTENDS Integers, Sequences, FiniteSets, TLC

\* ------------------------------------------------------------------ bounds
\* Largest capacity passed to init_fission_bank.
MaxCapacity == 3
\* Largest number of source particles owned locally (work_per_rank).
MaxWork == 3
\* Largest number of fission sites spawned in one generation.
MaxSites == 3
\* Number of transport worker threads.
NumWorkers == 2
\* Number of generations (calls of init_fission_bank) explored.
MaxGen == 2

Workers == 1..NumWorkers

\* --------------------------------------------------------------- constants
\* The error code the inspection accessors return (line 105); capi.h gives
\* it its value, and only its being non-zero matters here.
OPENMC_E_ALLOCATE == -2

MsgSource == "Source bank has not been allocated."
MsgFission == "Fission bank has not been allocated."

\* ------------------------------------------------------------------- state
VARIABLES
  source_bank,            \* std::vector<Particle::Bank>
  fission_bank,           \* std::unique_ptr<Particle::Bank[]>: [null, elems]
  fission_bank_length,    \* int64_t
  fission_bank_max,       \* int64_t
  progeny_per_particle,   \* std::vector<int64_t>
  work_per_rank,          \* simulation::work_per_rank (simulation.h)
  fault,                  \* TRUE once an access left the bounds of its object
  pc, site, idx,          \* per worker: position in append, site, claimed index
  n_progeny,              \* per source particle: progeny spawned this generation
  n_capacity_errors,      \* capacity errors reported this generation
  claimed,                \* history: the site of the append that claimed index k
  phase,                  \* driver: "idle" | "transport"
  gen,                    \* generations started
  call,                   \* the last API call: operation, argument, outputs
  pre                     \* the banks as they were when that call was made

bankvars == <<source_bank, fission_bank, fission_bank_length, fission_bank_max,
              progeny_per_particle, work_per_rank, fault>>
workervars == <<pc, site, idx, n_progeny, n_capacity_errors, claimed>>
vars == <<bankvars, workervars, phase, gen, call, pre>>

\* ------------------------------------------------------------------- sites
\* Particle::Bank, reduced to its lineage fields (the physics payload is
\* carried with them and determined by them).
Bank(p, j) == [parent_id |-> p, progeny_id |-> j]

\* A value-initialised Particle::Bank (make_unique<T[]>(n), vector<T>(n)).
DefaultBank == Bank(0, 0)

\* A null unique_ptr, and make_unique<Particle::Bank[]>(n).
NullPtr == [null |-> TRUE, elems |-> <<>>]
make_unique(n) == [null |-> FALSE, elems |-> [k \in 1..n |-> DefaultBank]]

\* std::vector<int64_t>::resize(n): the first min(size, n) entries are kept,
\* entries added are value-initialised (zero).
resize(v, n) == [k \in 1..n |-> IF k <= Len(v) THEN v[k] ELSE 0]

\* -------------------------------------------------------- free_memory_bank
\* Mutant: line 44 (fission_bank_length = 0) forgotten.
free_keeps_length ==
  /\ source_bank' = <<>>
  /\ fission_bank' = NullPtr
  /\ UNCHANGED <<fission_bank_length, fission_bank_max,
                 progeny_per_particle, work_per_rank, fault>>

free_memory_bank ==
  /\ source_bank' = <<>>
  /\ fission_bank' = NullPtr
  /\ fission_bank_length' = 0
  /\ UNCHANGED <<fission_bank_max, progeny_per_particle, work_per_rank,
                 fault>>

\* ------------------------------------------------------- init_fission_bank
\* Mutant: line 51 (fission_bank_length = 0) forgotten.
init_keeps_length(max) ==
  /\ fission_bank_max' = max
  /\ fission_bank' = make_unique(max)
  /\ progeny_per_particle' = resize(progeny_per_particle, work_per_rank)
  /\ UNCHANGED <<fission_bank_length, source_bank, work_per_rank, fault>>

\* Mutant: line 50 allocates one element fewer than max.
init_short_buffer(max) ==
  /\ fission_bank_max' = max
  /\ fission_bank' = make_unique(IF max > 0 THEN max - 1 ELSE 0)
  /\ fission_bank_length' = 0
  /\ progeny_per_particle' = resize(progeny_per_particle, work_per_rank)
  /\ UNCHANGED <<source_bank, work_per_rank, fault>>

\* Mutant: init_fission_bank also clears the source bank.
init_clears_source(max) ==
  /\ fission_bank_max' = max
  /\ fission_bank' = make_unique(max)
  /\ fission_bank_length' = 0
  /\ progeny_per_particle' = resize(progeny_per_particle, work_per_rank)
  /\ source_bank' = <<>>
  /\ UNCHANGED <<work_per_rank, fault>>

init_fission_bank(max) ==
  /\ fission_bank_max' = max
  /\ fission_bank' = make_unique(max)
  /\ fission_bank_length' = 0
  /\ progeny_per_particle' = resize(progeny_per_particle, work_per_rank)
  /\ UNCHANGED <<source_bank, work_per_rank, fault>>

\* ------------------------------------------------------- sort_fission_bank
\* The exclusive scan of lines 70-76, on the 1-based sequence p: i is the
\* loop's (0-based) index, tmp the count saved before it was overwritten.
RECURSIVE ScanLoop(_, _, _)
ScanLoop(p, i, tmp) ==
  IF i >= Len(p) THEN p
  ELSE LET value == p[i] + tmp
       IN  ScanLoop([p EXCEPT ![i + 1] = value], i + 1, p[i + 1])

\* Mutant: line 71 (progeny_per_particle[0] = 0) forgotten.
scan_keeps_first(p) == ScanLoop(p, 1, p[1])

\* Mutant: the loop of line 72 starts at i = 2.
scan_from_two(p) == ScanLoop([p EXCEPT ![1] = 0], 2, p[1])

exclusive_scan(p) == ScanLoop([p EXCEPT ![1] = 0], 1, p[1])

\* Mutant: line 87 without "+ site.progeny_id".
destination_no_progeny(offsets, s, o) ==
  IF s.parent_id - 1 >= 0 /\ s.parent_id - 1 < Len(offsets)
  THEN offsets[s.parent_id] ELSE o

\* Line 87: idx = progeny_per_particle[site.parent_id-1] + site.progeny_id.
\* An index outside the offset table reads whatever lies there (o).
destination(offsets, s, o) ==
  (IF s.parent_id - 1 >= 0 /\ s.parent_id - 1 < Len(offsets)
   THEN offsets[s.parent_id] ELSE o) + s.progeny_id

\* Line 86: fission_bank[i]; past the end of the buffer (or through a null
\* pointer) the read yields whatever lies there (g).
bank_at(elems, i, g) == IF i < Len(elems) THEN elems[i + 1] ELSE g

\* Whether the site read at position i and its destination stay in bounds:
\* the buffer (line 86), the offset table (line 87), the scratch (line 88).
scatter_in_bounds(elems, offsets, length, i, g, o) ==
  LET s == bank_at(elems, i, g)
      d == destination(offsets, s, o)
  IN  /\ i < Len(elems)
      /\ s.parent_id - 1 >= 0 /\ s.parent_id - 1 < Len(offsets)
      /\ d >= 0 /\ d < length

\* The scatter loop of lines 85-89 from position i on, sorted being the
\* scratch vector; a write outside the scratch vector does not land in it.
RECURSIVE ScatterLoop(_, _, _, _, _, _, _)
ScatterLoop(elems, offsets, length, i, sorted, g, o) ==
  IF i >= length THEN sorted
  ELSE LET s == bank_at(elems, i, g)
           d == destination(offsets, s, o)
       IN  ScatterLoop(elems, offsets, length, i + 1,
                       IF d >= 0 /\ d < length
                       THEN [sorted EXCEPT ![d + 1] = s] ELSE sorted,
                       g, o)

\* Mutant: the copy back of line 92 stops one position early.
sorted_elems_short(elems, offsets, length, g, o) ==
  LET scratch == ScatterLoop(elems, offsets, length, 0,
                             [k \in 1..length |-> DefaultBank], g, o)
  IN  [k \in 1..Len(elems) |-> IF k < length THEN scratch[k] ELSE elems[k]]

\* Lines 81-94: the buffer after the scatter and the copy back.  The copy
\* writes positions [0, length); those past the buffer's end do not land.
sorted_elems(elems, offsets, length, g, o) ==
  LET scratch == ScatterLoop(elems, offsets, length, 0,
                             [k \in 1..length |-> DefaultBank], g, o)
  IN  [k \in 1..Len(elems) |-> IF k <= length THEN scratch[k] ELSE elems[k]]

\* Whether every access of lines 85-94 stays inside its object.
sort_in_bounds(elems, offsets, length, g, o) ==
  /\ length <= Len(elems)
  /\ \A i \in 0..(length - 1) :
       scatter_in_bounds(elems, offsets, length, i, g, o)

\* Mutant: the guard of lines 64-66 dropped; with an empty vector line 70
\* then reads progeny_per_particle[0] off its end.
sort_without_guard(g, o) ==
  IF Len(progeny_per_particle) = 0
  THEN /\ fault' = TRUE
       /\ UNCHANGED <<source_bank, fission_bank, fission_bank_length,
                      fission_bank_max, progeny_per_particle, work_per_rank>>
  ELSE LET offsets == exclusive_scan(progeny_per_particle)
           elems == fission_bank.elems
       IN  /\ progeny_per_particle' = offsets
           /\ fission_bank' =
                [fission_bank EXCEPT !.elems =
                   sorted_elems(elems, offsets, fission_bank_length, g, o)]
           /\ fault' =
                ~sort_in_bounds(elems, offsets, fission_bank_length, g, o)
           /\ UNCHANGED <<source_bank, fission_bank_length,
                          fission_bank_max, work_per_rank>>

\* g and o are what an out-of-bounds read returns, should one happen.
sort_fission_bank(g, o) ==
  IF Len(progeny_per_particle) = 0
  THEN UNCHANGED bankvars
  ELSE LET offsets == exclusive_scan(progeny_per_particle)
           elems == fission_bank.elems
       IN  /\ progeny_per_particle' = offsets
           /\ fission_bank' =
                [fission_bank EXCEPT !.elems =
                   sorted_elems(elems, offsets, fission_bank_length, g, o)]
           /\ fault' =
                ~sort_in_bounds(elems, offsets, fission_bank_length, g, o)
           /\ UNCHANGED <<source_bank, fission_bank_length,
                          fission_bank_max, work_per_rank>>

\* ---------------------------------------------------------- the C API
\* ptr0, n0: what the caller's *ptr and *n hold when the call is made.
\* The result is <<return code, *ptr, *n, the message given to set_errmsg>>,
\* the message being "" when set_errmsg is not called.
openmc_source_bank(ptr0, n0) ==
  IF Len(source_bank) = 0
  THEN <<OPENMC_E_ALLOCATE, ptr0, n0, MsgSource>>
  ELSE <<0, "source_bank", Len(source_bank), "">>

\* Mutant: line 115 tests the pointer instead of the length.
fission_bank_tests_pointer(ptr0, n0) ==
  IF fission_bank.null
  THEN <<OPENMC_E_ALLOCATE, ptr0, n0, MsgFission>>
  ELSE <<0, "fission_bank", fission_bank_length, "">>

openmc_fission_bank(ptr0, n0) ==
  IF fission_bank_length = 0
  THEN <<OPENMC_E_ALLOCATE, ptr0, n0, MsgFission>>
  ELSE <<0, IF fission_bank.null THEN "nullptr" ELSE "fission_bank",
         fission_bank_length, "">>

\* ------------------------------------------------- transport (spec.md 4.1, 5)
AllIdle == \A w \in Workers : pc[w] = "idle"

\* The barrier of spec.md 5: the driver and the host call the operations of
\* bank.cpp only while no worker is inside append.  Once an access has left
\* its object the source no longer says what the program does, and the
\* model follows it no further.
Quiescent == AllIdle /\ ~fault

\* The transport layer has worker w spawn the next progeny of source
\* particle i: progeny_id values are sequential per parent (spec.md 3), and
\* the spawning particle's counter is incremented (spec.md 4.2).  A particle
\* is transported by one thread at a time (spec.md 5).
Spawn(w, i) ==
  /\ phase = "transport" /\ pc[w] = "idle"
  /\ ~fission_bank.null
  /\ i \in 1..Len(progeny_per_particle) /\ i <= Len(n_progeny)
  /\ Len(claimed) + Cardinality({v \in Workers : pc[v] = "reserve"}) < MaxSites
  /\ \A v \in Workers \ {w} : pc[v] /= "idle" => site[v].parent_id /= i
  /\ site' = [site EXCEPT ![w] = Bank(i, n_progeny[i])]
  /\ n_progeny' = [n_progeny EXCEPT ![i] = @ + 1]
  /\ progeny_per_particle' = [progeny_per_particle EXCEPT ![i] = @ + 1]
  /\ pc' = [pc EXCEPT ![w] = "reserve"]
  /\ UNCHANGED <<source_bank, fission_bank, fission_bank_length,
                 fission_bank_max, work_per_rank, fault,
                 idx, n_capacity_errors, claimed>>

\* append, first half: the atomic fetch-and-increment of the shared length.
Reserve(w) ==
  /\ pc[w] = "reserve"
  /\ idx' = [idx EXCEPT ![w] = fission_bank_length]
  /\ fission_bank_length' = fission_bank_length + 1
  /\ claimed' = Append(claimed, site[w])
  /\ pc' = [pc EXCEPT ![w] = "write"]
  /\ UNCHANGED <<source_bank, fission_bank, fission_bank_max,
                 progeny_per_particle, work_per_rank, fault,
                 site, n_progeny, n_capacity_errors>>

\* append, second half: an index at or past the capacity is reported as a
\* capacity error and nothing is written; otherwise the site is written
\* into the claimed slot, with no further synchronization.
Write(w) ==
  /\ pc[w] = "write"
  /\ IF idx[w] >= fission_bank_max
     THEN /\ n_capacity_errors' = n_capacity_errors + 1
          /\ UNCHANGED <<fission_bank, fault>>
     ELSE /\ IF idx[w] < Len(fission_bank.elems)
             THEN /\ fission_bank' =
                       [fission_bank EXCEPT !.elems[idx[w] + 1] = site[w]]
                  /\ UNCHANGED fault
             ELSE /\ fault' = TRUE
                  /\ UNCHANGED fission_bank
          /\ UNCHANGED n_capacity_errors
  /\ pc' = [pc EXCEPT ![w] = "idle"]
  /\ site' = [site EXCEPT ![w] = DefaultBank]
  /\ idx' = [idx EXCEPT ![w] = 0]
  /\ UNCHANGED <<source_bank, fission_bank_length, fission_bank_max,
                 progeny_per_particle, work_per_rank,
                 n_progeny, claimed>>

\* ------------------------------------------------------------- the driver
NoCall == [op |-> "none", arg |-> 0, rc |-> 0,
           ptr0 |-> "", n0 |-> 0, ptr |-> "", n |-> 0, errmsg |-> ""]

Snapshot == [source_bank |-> source_bank, fission_bank |-> fission_bank,
             fission_bank_length |-> fission_bank_length,
             fission_bank_max |-> fission_bank_max,
             progeny_per_particle |-> progeny_per_particle]

NoPre == [source_bank |-> <<>>, fission_bank |-> NullPtr,
          fission_bank_length |-> 0, fission_bank_max |-> 0,
          progeny_per_particle |-> <<>>]

Called(op, arg) == [NoCall EXCEPT !.op = op, !.arg = arg]

\* A worker's step: no API call is the last thing that happened.
WorkerStep(w) ==
  /\ ~fault
  /\ \/ \E i \in 1..MaxWork : Spawn(w, i)
     \/ Reserve(w)
     \/ Write(w)
  /\ call' = NoCall /\ pre' = NoPre
  /\ UNCHANGED <<phase, gen>>

\* The work-distribution collaborator sets the number of source particles
\* owned locally (spec.md 6), while no session holds a fission bank: before
\* the first init_fission_bank or after free_memory_bank.
CalculateWork(n) ==
  /\ Quiescent /\ phase = "idle" /\ fission_bank.null
  /\ n /= work_per_rank
  /\ work_per_rank' = n
  /\ call' = NoCall /\ pre' = NoPre
  /\ UNCHANGED <<source_bank, fission_bank, fission_bank_length,
                 fission_bank_max, progeny_per_particle, fault,
                 workervars, phase, gen>>

\* The driver starts a generation: init_fission_bank, then transport with a
\* fresh set of source particles (spec.md 2).
InitFissionBank(max) ==
  /\ Quiescent /\ gen < MaxGen
  /\ init_fission_bank(max)
  /\ n_progeny' = [i \in 1..work_per_rank |-> 0]
  /\ n_capacity_errors' = 0
  /\ claimed' = <<>>
  /\ phase' = "transport" /\ gen' = gen + 1
  /\ call' = Called("init_fission_bank", max) /\ pre' = Snapshot
  /\ UNCHANGED <<pc, site, idx>>

\* What a read outside an object may return.
GarbageBanks == {DefaultBank, Bank(1, 0), Bank(MaxWork + 1, 0)}
GarbageOffsets == {-1, 0, MaxCapacity}

\* Whether sort_fission_bank, called now, reads nothing outside an object
\* (what such a read returns then plays no part).
SortReadsInBounds ==
  \/ Len(progeny_per_particle) = 0
  \/ sort_in_bounds(fission_bank.elems, exclusive_scan(progeny_per_particle),
                    fission_bank_length, DefaultBank, 0)

\* The driver sorts after the barrier that ends the transport phase.
SortFissionBank ==
  /\ Quiescent
  /\ \E g \in GarbageBanks, o \in GarbageOffsets :
       /\ SortReadsInBounds => g = DefaultBank /\ o = 0
       /\ sort_fission_bank(g, o)
  /\ phase' = "idle"
  /\ call' = Called("sort_fission_bank", 0) /\ pre' = Snapshot
  /\ UNCHANGED <<workervars, gen>>

\* The driver builds the next source bank from the sorted fission bank
\* (spec.md 2 and 3).
PopulateSourceBank ==
  /\ Quiescent /\ call.op = "sort_fission_bank"
  /\ fission_bank_length <= Len(fission_bank.elems)
  /\ source_bank' = SubSeq(fission_bank.elems, 1, fission_bank_length)
  /\ phase' = "idle"
  /\ call' = NoCall /\ pre' = NoPre
  /\ UNCHANGED <<fission_bank, fission_bank_length, fission_bank_max,
                 progeny_per_particle, work_per_rank, fault,
                 workervars, gen>>

FreeMemoryBank ==
  /\ Quiescent
  /\ free_memory_bank
  /\ phase' = "idle"
  /\ call' = Called("free_memory_bank", 0) /\ pre' = Snapshot
  /\ UNCHANGED <<workervars, gen>>

\* What the caller's output cells may hold before an accessor is called.
CallerPtrs == {"stale"}
CallerNs == {-1}

Accessor(op, r, ptr0, n0) ==
  /\ Quiescent
  /\ call' = [op |-> op, arg |-> 0, rc |-> r[1],
              ptr0 |-> ptr0, n0 |-> n0, ptr |-> r[2], n |-> r[3],
              errmsg |-> r[4]]
  /\ pre' = Snapshot
  /\ UNCHANGED <<source_bank, fission_bank, fission_bank_length,
                 fission_bank_max, progeny_per_particle, work_per_rank,
                 fault, workervars, phase, gen>>

OpenmcSourceBank ==
  \E ptr0 \in CallerPtrs, n0 \in CallerNs :
    Accessor("openmc_source_bank", openmc_source_bank(ptr0, n0), ptr0, n0)

OpenmcFissionBank ==
  \E ptr0 \in CallerPtrs, n0 \in CallerNs :
    Accessor("openmc_fission_bank", openmc_fission_bank(ptr0, n0), ptr0, n0)

\* ------------------------------------------------------- the specification
Init ==
  /\ source_bank = <<>>
  /\ fission_bank = NullPtr
  /\ fission_bank_length = 0
  /\ fission_bank_max = 0
  /\ progeny_per_particle = <<>>
  /\ work_per_rank = 0
  /\ fault = FALSE
  /\ pc = [w \in Workers |-> "idle"]
  /\ site = [w \in Workers |-> DefaultBank]
  /\ idx = [w \in Workers |-> 0]
  /\ n_progeny = <<>>
  /\ n_capacity_errors = 0
  /\ claimed = <<>>
  /\ phase = "idle"
  /\ gen = 0
  /\ call = NoCall
  /\ pre = NoPre

Next ==
  \/ \E w \in Workers : WorkerStep(w)
  \/ \E n \in 0..MaxWork : CalculateWork(n)
  \/ \E max \in 0..MaxCapacity : InitFissionBank(max)
  \/ SortFissionBank
  \/ PopulateSourceBank
  \/ FreeMemoryBank
  \/ OpenmcSourceBank
  \/ OpenmcFissionBank

Spec == Init /\ [][Next]_vars

\* ------------------------------------------------------------------ claims
\* The sum of the first i entries of c.
RECURSIVE SumTo(_, _)
SumTo(c, i) == IF i = 0 THEN 0 ELSE c[i] + SumTo(c, i - 1)

\* The permutations of 1..n, and the first n entries of e reordered by f.
Perms(n) == {f \in [1..n -> 1..n] : \A a, b \in 1..n : f[a] = f[b] => a = b}
Permute(e, n, f) == [k \in 1..Len(e) |-> IF k <= n THEN e[f[k]] ELSE e[k]]

\* How often site s occurs among the first n entries of e.
Occurrences(e, n, s) == Cardinality({k \in 1..n : e[k] = s})

\* The data-model invariant of spec.md 3 on the banks s: the counters hold
\* the progeny counts c_1..c_k of the n sites in the bank, the counts sum to
\* n, and the progeny_id values of parent p are exactly 0..c_p - 1.
WellFormed(s) ==
  LET n == s.fission_bank_length
      e == s.fission_bank.elems
      c == s.progeny_per_particle
  IN  /\ Len(c) > 0 /\ n <= Len(e)
      /\ SumTo(c, Len(c)) = n
      /\ \A p \in 1..Len(c) : \A j \in 0..(c[p] - 1) :
           \E k \in 1..n : e[k] = Bank(p, j)

\* sort_fission_bank has just run on banks that satisfied that invariant.
Sorted ==
  /\ call.op = "sort_fission_bank"
  /\ WellFormed(pre)

\* C1 (order independence): when sort_fission_bank has run on a bank that
\* satisfies the data-model invariant, the bank it leaves is the one it
\* leaves for every other append order of the same sites with the same
\* progeny counts: sorting any reordering of the n appended sites gives the
\* sequence now in positions [0, n).
C1_OrderIndependence ==
  Sorted =>
    \A f \in Perms(pre.fission_bank_length) :
      sorted_elems(Permute(pre.fission_bank.elems,
                           pre.fission_bank_length, f),
                   exclusive_scan(pre.progeny_per_particle),
                   pre.fission_bank_length, DefaultBank, 0)
        = fission_bank.elems

\* Two workers appended sites of two parents in an order that is not the
\* canonical one, and the sort has run.
C1_Witness ==
  /\ Sorted
  /\ pre.fission_bank_length >= 2
  /\ pre.fission_bank.elems[1].parent_id > pre.fission_bank.elems[2].parent_id
  /\ fission_bank.elems /= pre.fission_bank.elems

\* C2 (canonical position): after sort_fission_bank on a bank satisfying
\* the data-model invariant with counts c_1..c_k, the site with parent_id i
\* and progeny_id j is at index c_1 + ... + c_(i-1) + j.
C2_CanonicalPosition ==
  Sorted =>
    \A i \in 1..Len(pre.progeny_per_particle) :
      \A j \in 0..(pre.progeny_per_particle[i] - 1) :
        fission_bank.elems[SumTo(pre.progeny_per_particle, i - 1) + j + 1]
          = Bank(i, j)

\* The scenario of spec.md 8: counts [2, 0, 1], particle 3's site appended
\* first, sorted into (1,0), (1,1), (3,0).
C2_Witness ==
  /\ Sorted
  /\ pre.progeny_per_particle = <<2, 0, 1>>
  /\ pre.fission_bank.elems[1] = Bank(3, 0)
  /\ fission_bank.elems = <<Bank(1, 0), Bank(1, 1), Bank(3, 0)>>

\* C3 (permutation): on a bank satisfying the data-model invariant the
\* destinations of the n sites are exactly the indices 0..n-1, and the bank
\* after the sort holds every site as often as before, none of them a
\* value-initialised scratch entry, with the length unchanged.
C3_Permutation ==
  Sorted =>
    LET n == pre.fission_bank_length
        before == pre.fission_bank.elems
    IN  /\ {destination(progeny_per_particle, before[k], 0) : k \in 1..n}
             = 0..(n - 1)
        /\ fission_bank_length = n
        /\ Len(fission_bank.elems) = Len(before)
        /\ \A k \in 1..n :
             /\ fission_bank.elems[k] /= DefaultBank
             /\ Occurrences(fission_bank.elems, n, before[k])
                  = Occurrences(before, n, before[k])
             /\ Occurrences(before, n, fission_bank.elems[k])
                  = Occurrences(fission_bank.elems, n, fission_bank.elems[k])

\* Three sites were appended with the last parent's site first and sorted.
C3_Witness ==
  /\ Sorted
  /\ pre.fission_bank_length = 3
  /\ pre.fission_bank.elems[1].parent_id = 3
  /\ fission_bank.elems[3].parent_id = 3

\* The append that claimed index k (0-based) has finished.
Finished(k) ==
  /\ k < Len(claimed)
  /\ \A w \in Workers : pc[w] = "write" => idx[w] /= k

\* C4 (lock-free append), as claimed: no two appends in flight hold the
\* same index, and once all appends of the transport phase have finished the
\* length is the number of appends and every slot in [0, length) holds the
\* site of the append that claimed it.
C4_LockFreeAppend ==
  phase = "transport" =>
    /\ \A v, w \in Workers :
         pc[v] = "write" /\ pc[w] = "write" /\ v /= w => idx[v] /= idx[w]
    /\ AllIdle =>
         /\ fission_bank_length = Len(claimed)
         /\ \A k \in 1..fission_bank_length :
              /\ k <= Len(fission_bank.elems)
              /\ fission_bank.elems[k] = claimed[k]

\* C5 (length bound), as claimed: 0 <= fission_bank_length <=
\* fission_bank_max in every reachable state.
C5_LengthBound ==
  /\ 0 <= fission_bank_length
  /\ fission_bank_length <= fission_bank_max

C7_Accessors ==
  /\ call.op = "openmc_source_bank" =>
       IF Len(source_bank) = 0
       THEN /\ call.rc = OPENMC_E_ALLOCATE /\ call.errmsg = MsgSource
            /\ call.ptr = call.ptr0 /\ call.n = call.n0
       ELSE /\ call.rc = 0 /\ call.errmsg = ""
            /\ call.ptr = "source_bank" /\ call.n = Len(source_bank)
  /\ call.op = "openmc_fission_bank" =>
       IF fission_bank_length = 0
       THEN /\ call.rc = OPENMC_E_ALLOCATE /\ call.errmsg = MsgFission
            /\ call.ptr = call.ptr0 /\ call.n = call.n0
       ELSE /\ call.rc = 0 /\ call.errmsg = ""
            /\ ~fission_bank.null /\ call.ptr = "fission_bank"
            /\ call.n = fission_bank_length

\* openmc_fission_bank was called right after init_fission_bank, before any
\* append, and failed leaving the caller's outputs alone.
C7_Witness ==
  /\ call.op = "openmc_fission_bank"
  /\ phase = "transport" /\ claimed = <<>>
  /\ ~fission_bank.null /\ fission_bank_max > 0
  /\ call.rc = OPENMC_E_ALLOCATE
  /\ call.ptr = "stale" /\ call.n = -1

\* C8 (progeny counter reset), as claimed: after init_fission_bank
\* progeny_per_particle has length work_per_rank and every entry is zero.
C8_CounterReset ==
  call.op = "init_fission_bank" =>
    /\ Len(progeny_per_particle) = work_per_rank
    /\ \A k \in 1..Len(progeny_per_particle) : progeny_per_particle[k] = 0

\* C9 (allocation): after init_fission_bank(max) the buffer is a fresh one
\* of exactly max value-initialised entries, fission_bank_max is max and
\* fission_bank_length is 0, whatever the banks held before.
C9_Allocation ==
  call.op = "init_fission_bank" =>
    /\ ~fission_bank.null
    /\ Len(fission_bank.elems) = call.arg
    /\ \A k \in 1..call.arg : fission_bank.elems[k] = DefaultBank
    /\ fission_bank_max = call.arg
    /\ fission_bank_length = 0

\* init_fission_bank was called on a bank that held appended sites, with a
\* capacity other than the one it had.
C9_Witness ==
  /\ call.op = "init_fission_bank"
  /\ pre.fission_bank_length > 0
  /\ Len(pre.fission_bank.elems) > 0
  /\ pre.fission_bank.elems[1] /= DefaultBank
  /\ pre.fission_bank_max /= call.arg

\* C10 (teardown), as claimed: after free_memory_bank source_bank is empty,
\* the buffer is released, fission_bank_length is 0 and the progeny counters
\* are reset; the state is one free_memory_bank maps to itself.
C10_Teardown ==
  call.op = "free_memory_bank" =>
    /\ source_bank = <<>>
    /\ fission_bank = NullPtr
    /\ fission_bank_length = 0
    /\ \A k \in 1..Len(progeny_per_particle) : progeny_per_particle[k] = 0

\* C11 (zero-bank no-op): when sort_fission_bank is called with an empty
\* progeny_per_particle it changes nothing: the fission bank, its length
\* and capacity, progeny_per_particle and source_bank are as they were, and
\* no access left its object.
C11_ZeroBankNoOp ==
  call.op = "sort_fission_bank" /\ Len(pre.progeny_per_particle) = 0 =>
    /\ fission_bank = pre.fission_bank
    /\ fission_bank_length = pre.fission_bank_length
    /\ fission_bank_max = pre.fission_bank_max
    /\ progeny_per_particle = pre.progeny_per_particle
    /\ source_bank = pre.source_bank
    /\ ~fault

\* sort_fission_bank was called with no local source particles on an
\* allocated bank of capacity 3.
C11_Witness ==
  /\ call.op = "sort_fission_bank"
  /\ pre.progeny_per_particle = <<>>
  /\ work_per_rank = 0
  /\ ~pre.fission_bank.null
  /\ Len(pre.fission_bank.elems) = 3

\* C12 (exclusive scan): when sort_fission_bank is called with a non-empty
\* progeny_per_particle of non-negative counts, afterwards the vector has
\* the same length, entry i is the sum of the original counts at indices
\* below i (entry 0 is 0), and the entries are non-negative and
\* non-decreasing.
C12_ExclusiveScan ==
  (/\ call.op = "sort_fission_bank"
   /\ Len(pre.progeny_per_particle) > 0
   /\ \A k \in 1..Len(pre.progeny_per_particle) :
        pre.progeny_per_particle[k] >= 0) =>
    /\ Len(progeny_per_particle) = Len(pre.progeny_per_particle)
    /\ \A k \in 1..Len(progeny_per_particle) :
         /\ progeny_per_particle[k] = SumTo(pre.progeny_per_particle, k - 1)
         /\ progeny_per_particle[k] >= 0
         /\ k > 1 => progeny_per_particle[k - 1] <= progeny_per_particle[k]

\* The counts [1, 2, 0] were replaced by the offsets [0, 1, 3].
C12_Witness ==
  /\ call.op = "sort_fission_bank"
  /\ pre.progeny_per_particle = <<1, 2, 0>>
  /\ progeny_per_particle = <<0, 1, 3>>

\* C13 (session init clears the source bank), as claimed: after
\* init_fission_bank the source bank is empty, whatever it held before.
C13_InitClearsSource ==
  call.op = "init_fission_bank" => source_bank = <<>>

\* C13, as the code has it: init_fission_bank leaves the source bank as it
\* was, whatever it held before; the bank built from the last generation's
\* sorted fission bank is still there for the transport phase to read.
C13_InitKeepsSource ==
  call.op = "init_fission_bank" => source_bank = pre.source_bank

\* init_fission_bank was called while the source bank held two sites, and
\* they are still there.
C13_Witness ==
  /\ call.op = "init_fission_bank"
  /\ Len(pre.source_bank) = 2
  /\ source_bank = pre.source_bank

\* The checks sort_fission_bank would have to make on the banks s: whether
\* some site of the live region has a parent_id outside 1..k, a destination
\* outside [0, length), or the destination of another site.
IllFormed(s) ==
  LET n == IF s.fission_bank_length <= Len(s.fission_bank.elems)
           THEN s.fission_bank_length ELSE Len(s.fission_bank.elems)
      e == s.fission_bank.elems
      offsets == exclusive_scan(s.progeny_per_particle)
      inTable(i) == e[i].parent_id \in 1..Len(offsets)
      dest(i) == offsets[e[i].parent_id] + e[i].progeny_id
  IN  \E i \in 1..n :
        \/ ~inTable(i)
        \/ inTable(i) /\ dest(i) \notin 0..(s.fission_bank_length - 1)
        \/ \E j \in 1..n :
             /\ j /= i /\ inTable(i) /\ inTable(j)
             /\ dest(i) = dest(j)

\* C14 (invariant violation in sort), as claimed: when sort_fission_bank is
\* called on a bank in which some site has a parent_id outside [1, k], a
\* destination outside [0, length) or the destination of another site, it
\* reports a fault and makes no access outside the offset table or the
\* scratch buffer.
C14_SortReportsFault ==
  (/\ call.op = "sort_fission_bank"
   /\ Len(pre.progeny_per_particle) > 0
   /\ IllFormed(pre)) =>
    /\ call.rc /= 0 \/ call.errmsg /= ""
    /\ ~fault

\* C15 (counter sum at the barrier), as claimed: when all workers have
\* finished the appends of a transport phase, the entries of
\* progeny_per_particle sum to fission_bank_length, rejected appends
\* included.
C15_CounterSum ==
  phase = "transport" /\ AllIdle /\ Len(claimed) > 0 =>
    SumTo(progeny_per_particle, Len(progeny_per_particle))
      = fission_bank_length

\* C16 (length implies allocation): in every state a non-zero
\* fission_bank_length implies an allocated buffer; a successful
\* openmc_fission_bank hands out that buffer, never a null one; and while
\* the buffer is released (after free_memory_bank, until the next
\* init_fission_bank) both accessors fail with OPENMC_E_ALLOCATE and leave
\* the caller's outputs alone.
C16_LengthImpliesAllocated ==
  /\ fission_bank_length > 0 => ~fission_bank.null
  /\ call.op = "openmc_fission_bank" /\ call.rc = 0 =>
       ~fission_bank.null /\ call.ptr = "fission_bank"
  /\ fission_bank.null =>
       \A ptr0 \in CallerPtrs, n0 \in CallerNs :
         /\ openmc_source_bank(ptr0, n0)
              = <<OPENMC_E_ALLOCATE, ptr0, n0, MsgSource>>
         /\ openmc_fission_bank(ptr0, n0)
              = <<OPENMC_E_ALLOCATE, ptr0, n0, MsgFission>>
  /\ call.op = "free_memory_bank" =>
       fission_bank.null /\ fission_bank_length = 0

\* free_memory_bank released a bank to which two sites had been appended,
\* and the openmc_fission_bank call that followed failed.
C16_Witness ==
  /\ call.op = "openmc_fission_bank"
  /\ call.rc = OPENMC_E_ALLOCATE
  /\ fission_bank.null /\ gen > 0
  /\ fission_bank_length = 0 /\ source_bank = <<>>
  /\ Len(claimed) = 2

\* C17 (frame of the sort), as claimed: sort_fission_bank changes only the
\* order of the sites in positions [0, length) and the values of
\* progeny_per_particle: the live region holds every site as often as
\* before, and fission_bank_length, fission_bank_max, source_bank, the
\* length of progeny_per_particle and every slot from length on are as they
\* were.
C17_SortFrame ==
  call.op = "sort_fission_bank" =>
    LET n == pre.fission_bank_length
        before == pre.fission_bank.elems
        after == fission_bank.elems
        m == IF n <= Len(before) THEN n ELSE Len(before)
    IN  /\ fission_bank_length = n
        /\ fission_bank_max = pre.fission_bank_max
        /\ source_bank = pre.source_bank
        /\ Len(progeny_per_particle) = Len(pre.progeny_per_particle)
        /\ fission_bank.null = pre.fission_bank.null
        /\ Len(after) = Len(before)
        /\ \A k \in (n + 1)..Len(before) : after[k] = before[k]
        /\ \A k \in 1..m :
             /\ Occurrences(after, m, before[k])
                  = Occurrences(before, m, before[k])
             /\ Occurrences(before, m, after[k])
                  = Occurrences(after, m, after[k])

====
